---- MODULE Spec2Model ----
(***************************************************************************)
(* A model of the PurrSQL plugin: the query normaliser and the column      *)
(* inference of helpers.py, and the request pipeline query_database_data   *)
(* of plugin.py running against the module-level settings that             *)
(* apply_settings reassigns.                                               *)
(*                                                                         *)
(* Text is a sequence of one-character strings, so that startswith, split, *)
(* replace, strip and lower are computed character by character as Python  *)
(* computes them.                                                          *)
(***************************************************************************)
EXTENDS Integers, Sequences, FiniteSets, TLC

(***************************************************************************)
(* Characters and Python's str operations                                  *)
(***************************************************************************)

\* The newline character and the backtick character.
NL == "\n"
BT == "bt"

\* Characters str.strip() removes (of those the model's texts contain).
Whitespace == {" ", NL}

UpperLetters == <<"A","B","C","D","E","F","G","H","I","J","K","L","M",
                  "N","O","P","Q","R","S","T","U","V","W","X","Y","Z">>
LowerLetters == <<"a","b","c","d","e","f","g","h","i","j","k","l","m",
                  "n","o","p","q","r","s","t","u","v","w","x","y","z">>

LowerChar(c) ==
    IF \E i \in 1..26 : UpperLetters[i] = c
    THEN LowerLetters[CHOOSE i \in 1..26 : UpperLetters[i] = c]
    ELSE c

\* str.lower()
Lower(s) == [i \in 1..Len(s) |-> LowerChar(s[i])]

\* s[from:]
DropFirst(s, n) == SubSeq(s, n + 1, Len(s))

\* str.startswith(p)
StartsWith(s, p) == Len(s) >= Len(p) /\ SubSeq(s, 1, Len(p)) = p

\* str.find(p, from): the least index >= from where p occurs in s, 0 if none.
Find(s, p, from) ==
    LET hits == {i \in from..(Len(s) - Len(p) + 1) : SubSeq(s, i, i + Len(p) - 1) = p}
    IN IF hits = {} THEN 0 ELSE CHOOSE i \in hits : \A j \in hits : i <= j

\* p in s
Contains(s, p) == Find(s, p, 1) # 0

\* s.split(sep)[1] for a text that contains sep: what lies between the first
\* occurrence of sep and the second (or the end of the text).
SplitSecond(s, sep) ==
    LET i1 == Find(s, sep, 1)
        b  == i1 + Len(sep)
        i2 == Find(s, sep, b)
    IN SubSeq(s, b, IF i2 = 0 THEN Len(s) ELSE i2 - 1)

RECURSIVE Replace(_, _, _)
\* str.replace(old, new): left to right, occurrences not overlapping.
Replace(s, old, new) ==
    IF Len(s) = 0 THEN <<>>
    ELSE IF StartsWith(s, old) THEN new \o Replace(DropFirst(s, Len(old)), old, new)
    ELSE <<s[1]>> \o Replace(DropFirst(s, 1), old, new)

RECURSIVE LStrip(_)
LStrip(s) == IF Len(s) > 0 /\ s[1] \in Whitespace THEN LStrip(DropFirst(s, 1)) ELSE s

RECURSIVE RStrip(_)
RStrip(s) ==
    IF Len(s) > 0 /\ s[Len(s)] \in Whitespace THEN RStrip(SubSeq(s, 1, Len(s) - 1)) ELSE s

\* str.strip()
Strip(s) == RStrip(LStrip(s))

RECURSIVE Concat(_)
\* The texts of a sequence joined end to end.
Concat(ts) == IF ts = <<>> THEN <<>> ELSE ts[1] \o Concat(Tail(ts))

\* The sequences of at most n elements of S.
SeqUpTo(S, n) == UNION {[1..k -> S] : k \in 0..n}

(***************************************************************************)
(* helpers.py: clean_langchain_query                                       *)
(***************************************************************************)

LABEL == <<"S","Q","L","Q","u","e","r","y",":"," ">>
SEPARATOR == <<":"," ">>
FENCE == <<BT, BT, BT>>
SQLTAG == <<"s","q","l"," ">>

\* if query.startswith("SQLQuery: "): query = query.split(": ")[1]
StripLabel(q) == IF StartsWith(q, LABEL) THEN SplitSecond(q, SEPARATOR) ELSE q

\* query.replace("\n", " ")
ReplaceNewlines(q) == Replace(q, <<NL>>, <<" ">>)

\* query.replace("```", "")
RemoveFences(q) == Replace(q, FENCE, <<>>)

\* if "sql " in query: query = query.split("sql ")[1]
CutSqlTag(q) == IF Contains(q, SQLTAG) THEN SplitSecond(q, SQLTAG) ELSE q

\* The statements after the label step: lines 9 to 13.
CleanAfterLabel(q) == Strip(CutSqlTag(RemoveFences(ReplaceNewlines(q))))

clean_langchain_query(q) == CleanAfterLabel(StripLabel(q))

(***************************************************************************)
(* helpers.py: extract_columns_from_query                                  *)
(***************************************************************************)

query_types == { <<"s","e","l","e","c","t">>,
                 <<"s","h","o","w">>,
                 <<"d","e","s","c","r","i","b","e">>,
                 <<"e","x","p","l","a","i","n">>,
                 <<"w","i","t","h">> }

RETURNING == <<" ","r","e","t","u","r","n","i","n","g"," ">>

\* A plausible slip: the RETURNING clause looked for without its surrounding blanks.
IsRowProducingNoBlanks(sql_statement) ==
    LET query_lower == Lower(sql_statement)
    IN \/ \E qt \in query_types : StartsWith(query_lower, qt)
       \/ Contains(query_lower, SubSeq(RETURNING, 2, Len(RETURNING) - 1))

\* any(query_lower.startswith(qt) for qt in query_types) or " returning " in query_lower
IsRowProducing(sql_statement) ==
    LET query_lower == Lower(sql_statement)
    IN \/ \E qt \in query_types : StartsWith(query_lower, qt)
       \/ Contains(query_lower, RETURNING)

RECURSIVE SplitOn(_, _)
\* str.split(c) for a one-character separator.
SplitOn(s, c) ==
    LET i == Find(s, <<c>>, 1)
    IN IF i = 0 THEN <<s>> ELSE <<SubSeq(s, 1, i - 1)>> \o SplitOn(DropFirst(s, i), c)

\* CommaSeparatedListOutputParser().parse: the items between commas, the blanks
\* that open an item skipped.
ParseCommaList(text) ==
    LET parts == SplitOn(text, ",") IN [i \in 1..Len(parts) |-> LStrip(parts[i])]

\* What llm.invoke(...) does in a call: it raises, or it returns a message
\* with this content.
LlmReplies == { [raises |-> TRUE,  content |-> <<>>],
                [raises |-> FALSE, content |-> <<>>],
                [raises |-> FALSE, content |-> <<"i","d",","," ","n">>] }

\* extract_columns_from_query(llm, sql_statement) with the model replying
\* `reply`: the list returned and the number of llm.invoke calls made.
extract_columns_from_query(reply, sql_statement) ==
    IF IsRowProducing(sql_statement)
    THEN IF reply.raises THEN [columns |-> <<>>, invoked |-> 1]
         ELSE IF reply.content # <<>>
              THEN [columns |-> ParseCommaList(reply.content), invoked |-> 1]
              ELSE [columns |-> <<>>, invoked |-> 1]
    ELSE [columns |-> <<>>, invoked |-> 0]

(***************************************************************************)
(* Bounds of the model                                                     *)
(***************************************************************************)

\* Calls of apply_settings in a behaviour.
MaxApply == 2
\* Requests the host makes one after the other in SpecTwin.
MaxRequests == 2
\* The db.run call of a request that may raise is one of the first MaxFailAt.
MaxFailAt == 3
\* Pieces a text handed to clean_langchain_query is made of.
MaxCleanTokens == 4
\* Pieces a statement handed to extract_columns_from_query is made of.
MaxStmtTokens == 3

(***************************************************************************)
(* plugin.py: the module-level settings and one request                    *)
(***************************************************************************)

VARIABLES
    db,                     \* the module-level handle: None, or a SQLDatabase
    tables_list,            \* the handle whose table names are held (0: [])
    custom_llm,             \* the module-level helper model: "none" or "helper"
    enable_query_debugger,  \* the module-level flag
    asPc,                   \* where the running apply_settings call stands
    nApply,                 \* apply_settings calls begun
    nHandles,               \* SQLDatabase objects made so far
    pc,                     \* where the request stands
    startDb,                \* db as line 145 read it (-1: not read yet)
    chain,                  \* the handle the generation chain was built on
    raw,                    \* what the chains return for this tool_input
    failAt,                 \* which db.run call of the request raises (0: none)
    colReply,               \* what the model replies to column inference
    llm,                    \* local llm
    query,                  \* local query
    statements,             \* local statements
    idx,                    \* the loop's position in statements
    response,               \* local response
    ret,                    \* what the call handed back to the host
    applied,                \* the statements the databases have applied
    trace,                  \* the outbound calls of the request, in order
    flagRead,               \* the flag as the request read it
    reqNo,                  \* requests begun
    prev,                   \* the outcome of the request before this one
    hpc, hin, hout, hout2, hcols, hcalls   \* the helpers called on their own

settingsVars == <<db, tables_list, custom_llm, enable_query_debugger, asPc, nApply, nHandles>>
requestVars == <<pc, startDb, chain, raw, failAt, colReply, llm, query, statements, idx, response, ret,
                 applied, trace, flagRead, reqNo, prev>>
helperVars == <<hpc, hin, hout, hout2, hcols, hcalls>>
vars == <<settingsVars, requestVars, helperVars>>

\* db = None
None == 0

\* The texts the generation and validation chains hand back in the model.
T_SELECT == <<"S","E","L","E","C","T"," ","1">>
T_DELETE == <<"D","E","L","E","T","E"," ","1">>
T_BEGIN == <<"B","E","G","I","N">>
T_COMMIT == <<"C","O","M","M","I","T">>
T_END == <<"E","N","D">>
SEMI == <<";">>
SEMISP == <<";"," ">>

RawOutputs ==
    { <<>>,
      T_SELECT \o SEMI,
      LABEL \o T_SELECT \o SEMI,
      T_BEGIN \o SEMI,
      T_BEGIN \o SEMISP \o T_SELECT \o SEMISP \o T_COMMIT \o SEMI,
      T_DELETE \o SEMISP \o T_SELECT \o SEMI,
      Lower(T_BEGIN) \o SEMISP \o T_DELETE \o SEMI,
      T_BEGIN \o <<" ">> \o T_DELETE \o SEMISP \o T_END \o SEMI,
      FENCE \o <<"s","q","l">> \o <<NL>> \o T_DELETE \o SEMISP \o T_DELETE \o SEMISP
          \o T_SELECT \o <<NL>> \o FENCE }

RECURSIVE SplitStatements(_)
\* sqlparse.split(query) on texts without quotes, comments or parentheses: cut
\* after each semicolon, each statement stripped, blank ones dropped.
SplitStatements(q) ==
    LET i == Find(q, SEMI, 1)
        head == Strip(IF i = 0 THEN q ELSE SubSeq(q, 1, i))
        rest == IF i = 0 THEN <<>> ELSE SplitStatements(DropFirst(q, i))
    IN IF Len(q) = 0 THEN <<>>
       ELSE IF Len(head) = 0 THEN rest ELSE <<head>> \o rest

\* One outbound call of the request: what was called, on which handle, with
\* which text, and whether it returned (ok) or raised.
Event(op, h, s, ok) == [op |-> op, db |-> h, stmt |-> s, ok |-> ok]

\* str(db.run(statement)), and str(e) of what a call raised.
Rows(s) == [kind |-> "rows", stmt |-> s]
Error(op, s) == [kind |-> "error", op |-> op, stmt |-> s]

NoResponse == [shape |-> "none", items |-> <<>>]
\* {"result": ..., "columns": ...}
ResultObject(result, columns) == [result |-> result, columns |-> columns]
SingleResponse(result, columns) ==
    [shape |-> "object", items |-> <<ResultObject(result, columns)>>]
\* response = []
EmptyList == [shape |-> "list", items |-> <<>>]

\* A plausible slip: the entry assigned where it should be appended.
AppendResultOverwrite(resp, result, columns) ==
    [shape |-> "list", items |-> <<ResultObject(result, columns)>>]

\* response.append({...})
AppendResult(resp, result, columns) ==
    [shape |-> "list", items |-> Append(resp.items, ResultObject(result, columns))]

\* A plausible change: the failure added to the results gathered so far.
ExceptResponseKeep(resp, e) ==
    [shape |-> "list", items |-> Append(resp.items, [result |-> e])]

\* except Exception as e: response = {"result": str(e)}
ExceptResponse(resp, e) == [shape |-> "failure", items |-> <<[result |-> e]>>]

\* not statement.startswith("BEGIN") and not statement.startswith("COMMIT")
IsExecuted(statement) ==
    ~StartsWith(statement, T_BEGIN) /\ ~StartsWith(statement, T_COMMIT)

\* A plausible slip: the test inverted.
DbIsNoneInverted(h) == h # None

\* if db is None
DbIsNone(h) == h = None

NotReturned == [kind |-> "none", value |-> NoResponse]
Returned(kind, value) == [kind |-> kind, value |-> value]

NoPrev == [flag |-> "unread", startDb |-> -1, trace |-> <<>>, ret |-> NotReturned]

\* The db.run calls the request has made.
RunCalls(t) == SelectSeq(t, LAMBDA e : e.op = "run")

\* The module as loaded: lines 29 to 32.
SettingsInit ==
    /\ db = None
    /\ tables_list = 0
    /\ custom_llm = "none"
    /\ enable_query_debugger = TRUE
    /\ asPc = "idle"
    /\ nApply = 0
    /\ nHandles = 0

\* No request made yet.
RequestInit ==
    /\ pc = "idle"
    /\ startDb = -1
    /\ chain = None
    /\ llm = "unset"
    /\ query = <<>>
    /\ statements = <<>>
    /\ idx = 0
    /\ response = NoResponse
    /\ ret = NotReturned
    /\ applied = <<>>
    /\ trace = <<>>
    /\ flagRead = "unread"
    /\ reqNo = 0
    /\ prev = NoPrev

Init ==
    /\ SettingsInit
    /\ RequestInit
    /\ raw \in RawOutputs
    /\ failAt \in 0..MaxFailAt
    /\ colReply \in LlmReplies
    /\ hpc = "off"
    /\ hin = <<>>
    /\ hout = <<>>
    /\ hout2 = <<>>
    /\ hcols = <<>>
    /\ hcalls = 0

(***************************************************************************)
(* apply_settings, one assignment of a module-level name at a time         *)
(***************************************************************************)

\* The host calls apply_settings (save_settings, after_cat_bootstrap).
AS_Begin ==
    /\ asPc = "idle"
    /\ nApply < MaxApply
    /\ nApply' = nApply + 1
    /\ asPc' = "connect"
    /\ UNCHANGED <<db, tables_list, custom_llm, enable_query_debugger, nHandles>>
    /\ UNCHANGED <<requestVars, helperVars>>

\* db = SQLDatabase.from_uri(db_url), or db = None when it raises.
AS_Connect ==
    /\ asPc = "connect"
    /\ \/ /\ nHandles' = nHandles + 1
          /\ db' = nHandles + 1
          /\ asPc' = "tables"
       \/ /\ db' = None
          /\ asPc' = "llm"
          /\ UNCHANGED nHandles
    /\ UNCHANGED <<tables_list, custom_llm, enable_query_debugger, nApply>>
    /\ UNCHANGED <<requestVars, helperVars>>

\* save_db_table_names(), or db = None when it raises.
AS_Tables ==
    /\ asPc = "tables"
    /\ \/ /\ tables_list' = IF db # None THEN db ELSE tables_list
          /\ UNCHANGED db
       \/ /\ db # None
          /\ db' = None
          /\ UNCHANGED tables_list
    /\ asPc' = "llm"
    /\ UNCHANGED <<custom_llm, enable_query_debugger, nApply, nHandles>>
    /\ UNCHANGED <<requestVars, helperVars>>

\* match settings["helper_llm"]: a helper model is built, or custom_llm = None,
\* or the helper's constructor raises and apply_settings ends there.
AS_Llm ==
    /\ asPc = "llm"
    /\ \/ /\ custom_llm' \in {"helper", "none"}
          /\ asPc' = "debug"
       \/ /\ asPc' = "idle"
          /\ UNCHANGED custom_llm
    /\ UNCHANGED <<db, tables_list, enable_query_debugger, nApply, nHandles>>
    /\ UNCHANGED <<requestVars, helperVars>>

\* enable_query_debugger = settings["enable_query_debugger"]
AS_Debug ==
    /\ asPc = "debug"
    /\ enable_query_debugger' \in BOOLEAN
    /\ asPc' = "idle"
    /\ UNCHANGED <<db, tables_list, custom_llm, nApply, nHandles>>
    /\ UNCHANGED <<requestVars, helperVars>>

(***************************************************************************)
(* query_database_data, one read of a module-level name at a time          *)
(***************************************************************************)

\* The call raised: nothing is returned to the host.
Raise == Returned("raise", NoResponse)

\* Whether db.run raises on handle h as the request's next call.
RunRaises(h) == h = None \/ Len(RunCalls(trace)) + 1 = failAt

\* if db is None: return "Database is not connected. ..."
CheckConnection ==
    /\ pc = "idle"
    /\ reqNo' = reqNo + 1
    /\ startDb' = db
    /\ IF DbIsNone(db)
       THEN /\ ret' = Returned("advisory", NoResponse)
            /\ pc' = "done"
       ELSE /\ pc' = "L149"
            /\ UNCHANGED ret
    /\ UNCHANGED <<chain, raw, failAt, colReply, llm, query, statements, idx, response,
                   applied, trace, flagRead, prev>>
    /\ UNCHANGED <<settingsVars, helperVars>>

\* llm = custom_llm or cat._llm
ChooseLlm ==
    /\ pc = "L149"
    /\ llm' = IF custom_llm # "none" THEN custom_llm ELSE "cat"
    /\ pc' = "L151"
    /\ UNCHANGED <<startDb, chain, raw, failAt, colReply, query, statements, idx, response,
                   ret, applied, trace, flagRead, reqNo, prev>>
    /\ UNCHANGED <<settingsVars, helperVars>>

\* chain = create_sql_query_chain(llm, db), which reads db.dialect
BuildChain ==
    /\ pc = "L151"
    /\ trace' = Append(trace, Event("chain", db, <<>>, db # None))
    /\ IF db = None
       THEN /\ ret' = Raise
            /\ pc' = "done"
            /\ UNCHANGED chain
       ELSE /\ chain' = db
            /\ pc' = "L183"
            /\ UNCHANGED ret
    /\ UNCHANGED <<startDb, raw, failAt, colReply, llm, query, statements, idx, response,
                   applied, flagRead, reqNo, prev>>
    /\ UNCHANGED <<settingsVars, helperVars>>

\* .partial(dialect=db.dialect)
ReadDialect ==
    /\ pc = "L183"
    /\ trace' = Append(trace, Event("dialect", db, <<>>, db # None))
    /\ IF db = None
       THEN /\ ret' = Raise
            /\ pc' = "done"
       ELSE /\ pc' = "L188"
            /\ UNCHANGED ret
    /\ UNCHANGED <<startDb, chain, raw, failAt, colReply, llm, query, statements, idx,
                   response, applied, flagRead, reqNo, prev>>
    /\ UNCHANGED <<settingsVars, helperVars>>

\* query = full_chain.invoke(...); query = clean_langchain_query(query)
Invoke ==
    /\ pc = "L188"
    /\ \/ /\ trace' = trace \o <<Event("gen", chain, <<>>, FALSE)>>
          /\ ret' = Raise
          /\ pc' = "done"
          /\ UNCHANGED query
       \/ /\ trace' = trace \o <<Event("gen", chain, <<>>, TRUE),
                               Event("val", None, <<>>, FALSE)>>
          /\ ret' = Raise
          /\ pc' = "done"
          /\ UNCHANGED query
       \/ /\ trace' = trace \o <<Event("gen", chain, <<>>, TRUE),
                               Event("val", None, <<>>, TRUE)>>
          /\ query' = clean_langchain_query(raw)
          /\ pc' = "L195"
          /\ UNCHANGED ret
    /\ UNCHANGED <<startDb, chain, raw, failAt, colReply, llm, statements, idx, response,
                   applied, flagRead, reqNo, prev>>
    /\ UNCHANGED <<settingsVars, helperVars>>

\* if enable_query_debugger: cat.send_chat_message(...)
Echo ==
    /\ pc = "L195"
    /\ flagRead' = IF enable_query_debugger THEN "on" ELSE "off"
    /\ IF enable_query_debugger
       THEN \/ /\ trace' = Append(trace, Event("echo", None, query, TRUE))
               /\ pc' = "L198"
               /\ UNCHANGED response
            \/ /\ trace' = Append(trace, Event("echo", None, query, FALSE))
               /\ response' = ExceptResponse(response, Error("echo", query))
               /\ pc' = "ret"
       ELSE /\ pc' = "L198"
            /\ UNCHANGED <<trace, response>>
    /\ UNCHANGED <<startDb, chain, raw, failAt, colReply, llm, query, statements, idx, ret,
                   applied, reqNo, prev>>
    /\ UNCHANGED <<settingsVars, helperVars>>

\* statements = sqlparse.split(query) and the branch on len(statements)
Split ==
    /\ pc = "L198"
    /\ statements' = SplitStatements(query)
    /\ IF Len(statements') = 0
       THEN /\ ret' = Returned("novalid", NoResponse)
            /\ pc' = "done"
            /\ UNCHANGED <<response, idx>>
       ELSE IF Len(statements') = 1
       THEN /\ pc' = "single"
            /\ UNCHANGED <<response, idx, ret>>
       ELSE /\ response' = EmptyList
            /\ idx' = 1
            /\ pc' = "loop"
            /\ UNCHANGED ret
    /\ UNCHANGED <<startDb, chain, raw, failAt, colReply, llm, query, applied, trace,
                   flagRead, reqNo, prev>>
    /\ UNCHANGED <<settingsVars, helperVars>>

\* The events of extract_columns_from_query(cat._llm, s).
ColumnEvents(s) ==
    IF extract_columns_from_query(colReply, s).invoked = 1
    THEN <<Event("col", None, s, ~colReply.raises)>> ELSE <<>>

\* response = {"result": str(db.run(statements[0])),
\*             "columns": extract_columns_from_query(cat._llm, query)}
RunSingle ==
    /\ pc = "single"
    /\ LET st == statements[1]
       IN IF RunRaises(db)
          THEN /\ trace' = Append(trace, Event("run", db, st, FALSE))
               /\ response' = ExceptResponse(response, Error("run", st))
               /\ UNCHANGED applied
          ELSE /\ trace' = Append(trace, Event("run", db, st, TRUE)) \o ColumnEvents(query)
               /\ applied' = Append(applied, [db |-> db, stmt |-> st])
               /\ response' = SingleResponse(Rows(st),
                                  extract_columns_from_query(colReply, query).columns)
    /\ pc' = "ret"
    /\ UNCHANGED <<startDb, chain, raw, failAt, colReply, llm, query, statements, idx, ret,
                   flagRead, reqNo, prev>>
    /\ UNCHANGED <<settingsVars, helperVars>>

\* for statement in statements: one turn of the loop
LoopStep ==
    /\ pc = "loop"
    /\ IF idx > Len(statements)
       THEN /\ pc' = "ret"
            /\ UNCHANGED <<idx, trace, applied, response>>
       ELSE LET st == statements[idx]
            IN IF ~IsExecuted(st)
               THEN /\ idx' = idx + 1
                    /\ UNCHANGED <<pc, trace, applied, response>>
               ELSE IF RunRaises(db)
               THEN /\ trace' = Append(trace, Event("run", db, st, FALSE))
                    /\ response' = ExceptResponse(response, Error("run", st))
                    /\ pc' = "ret"
                    /\ UNCHANGED <<idx, applied>>
               ELSE /\ trace' = Append(trace, Event("run", db, st, TRUE)) \o ColumnEvents(st)
                    /\ applied' = Append(applied, [db |-> db, stmt |-> st])
                    /\ response' = AppendResult(response, Rows(st),
                                       extract_columns_from_query(colReply, st).columns)
                    /\ idx' = idx + 1
                    /\ UNCHANGED pc
    /\ UNCHANGED <<startDb, chain, raw, failAt, colReply, llm, query, statements, ret,
                   flagRead, reqNo, prev>>
    /\ UNCHANGED <<settingsVars, helperVars>>

\* return json.dumps(response)
Return ==
    /\ pc = "ret"
    /\ ret' = Returned("json", response)
    /\ pc' = "done"
    /\ UNCHANGED <<startDb, chain, raw, failAt, colReply, llm, query, statements, idx,
                   response, applied, trace, flagRead, reqNo, prev>>
    /\ UNCHANGED <<settingsVars, helperVars>>

\* The host calls the tool again with the same tool_input; what the finished
\* call did is kept for comparison.
NextRequest ==
    /\ pc = "done"
    /\ reqNo < MaxRequests
    /\ prev' = [flag |-> flagRead, startDb |-> startDb, trace |-> trace, ret |-> ret]
    /\ pc' = "idle"
    /\ startDb' = -1
    /\ chain' = None
    /\ llm' = "unset"
    /\ query' = <<>>
    /\ statements' = <<>>
    /\ idx' = 0
    /\ response' = NoResponse
    /\ ret' = NotReturned
    /\ trace' = <<>>
    /\ flagRead' = "unread"
    /\ UNCHANGED <<raw, failAt, colReply, applied, reqNo>>
    /\ UNCHANGED <<settingsVars, helperVars>>

\* One request, with apply_settings running beside it.
Next ==
    \/ AS_Begin \/ AS_Connect \/ AS_Tables \/ AS_Llm \/ AS_Debug
    \/ CheckConnection \/ ChooseLlm \/ BuildChain \/ ReadDialect \/ Invoke
    \/ Echo \/ Split \/ RunSingle \/ LoopStep \/ Return

Spec == Init /\ [][Next]_vars

\* No request is under way, and no apply_settings call.
BetweenRequests == pc \in {"idle", "done"}
SettingsAtRest == asPc = "idle"

\* Requests one after the other, the settings changed only between them.
NextTwin ==
    \/ BetweenRequests /\ AS_Begin
    \/ BetweenRequests /\ AS_Connect
    \/ BetweenRequests /\ AS_Tables
    \/ BetweenRequests /\ AS_Llm
    \/ BetweenRequests /\ AS_Debug
    \/ SettingsAtRest /\ CheckConnection
    \/ SettingsAtRest /\ ChooseLlm
    \/ SettingsAtRest /\ BuildChain
    \/ SettingsAtRest /\ ReadDialect
    \/ SettingsAtRest /\ Invoke
    \/ SettingsAtRest /\ Echo
    \/ SettingsAtRest /\ Split
    \/ SettingsAtRest /\ RunSingle
    \/ SettingsAtRest /\ LoopStep
    \/ SettingsAtRest /\ Return
    \/ SettingsAtRest /\ NextRequest

SpecTwin == Init /\ [][NextTwin]_vars

(***************************************************************************)
(* The helpers called on their own, on texts made of a few pieces          *)
(***************************************************************************)

CleanTokens == { LABEL, SEPARATOR, SQLTAG, FENCE, <<BT>>, <<NL>>, <<" ">>, <<"x">>, SEMI }

CleanInputs == { Concat(ts) : ts \in SeqUpTo(CleanTokens, MaxCleanTokens) }

StmtTokens == { T_SELECT, T_DELETE, <<"W","i","t","h">>, <<"s","h","o","w">>,
                <<"E","X","P","L","A","I","N">>, <<"d","e","s","c","r","i","b","e">>,
                RETURNING, <<"R","E","T","U","R","N","I","N","G">>, <<" ">>, <<"x">> }

StmtInputs == { Concat(ts) : ts \in SeqUpTo(StmtTokens, MaxStmtTokens) }

HelperRest ==
    /\ SettingsInit
    /\ RequestInit
    /\ raw = <<>>
    /\ failAt = 0
    /\ hout = <<>>
    /\ hout2 = <<>>
    /\ hcols = <<>>
    /\ hcalls = 0

InitClean ==
    /\ HelperRest
    /\ colReply = [raises |-> FALSE, content |-> <<>>]
    /\ hpc = "in"
    /\ hin \in CleanInputs

\* clean_langchain_query(hin)
CleanOnce ==
    /\ hpc = "in"
    /\ hout' = clean_langchain_query(hin)
    /\ hpc' = "once"
    /\ UNCHANGED <<hin, hout2, hcols, hcalls, settingsVars, requestVars>>

\* clean_langchain_query of what clean_langchain_query returned
CleanAgain ==
    /\ hpc = "once"
    /\ hout2' = clean_langchain_query(hout)
    /\ hpc' = "twice"
    /\ UNCHANGED <<hin, hout, hcols, hcalls, settingsVars, requestVars>>

NextClean == CleanOnce \/ CleanAgain

SpecClean == InitClean /\ [][NextClean]_vars

InitColumns ==
    /\ HelperRest
    /\ colReply \in LlmReplies
    /\ hpc = "statement"
    /\ hin \in StmtInputs

\* extract_columns_from_query(llm, hin)
ExtractColumns ==
    /\ hpc = "statement"
    /\ hcols' = extract_columns_from_query(colReply, hin).columns
    /\ hcalls' = hcalls + extract_columns_from_query(colReply, hin).invoked
    /\ hpc' = "extracted"
    /\ UNCHANGED <<hin, hout, hout2, settingsVars, requestVars>>

NextColumns == ExtractColumns

SpecColumns == InitColumns /\ [][NextColumns]_vars

(***************************************************************************)
(* C6                                                                      *)
(***************************************************************************)

\* The statement, in lower case, starts with none of select, show, describe,
\* explain, with, and does not contain " returning ".
NotRowProducing(s) ==
    /\ \A kw \in query_types : ~StartsWith(Lower(s), kw)
    /\ ~Contains(Lower(s), RETURNING)

\* C6: for every statement that, case-insensitively, starts with none of
\* select, show, describe, explain, with and does not contain " returning ",
\* extract_columns_from_query returns the empty list and has made no call of
\* the language model.
C6_ShortCircuit ==
    (hpc = "extracted" /\ NotRowProducing(hin)) => (hcols = <<>> /\ hcalls = 0)

\* A statement with the word RETURNING in it, but not the clause, has been
\* through the function without a model call, although the model would have
\* named columns.
C6_Witness ==
    /\ hpc = "extracted"
    /\ NotRowProducing(hin)
    /\ Contains(Lower(hin), SubSeq(RETURNING, 2, Len(RETURNING) - 1))
    /\ ~colReply.raises /\ colReply.content # <<>>
    /\ hcols = <<>> /\ hcalls = 0

(***************************************************************************)
(* C7, C8                                                                  *)
(***************************************************************************)

\* C7: clean_langchain_query is idempotent: cleaning its own output changes
\* nothing; and its output does not begin with the label "SQLQuery: " nor
\* contain a newline, a code fence or the tag "sql ".
C7_Idempotent ==
    hpc = "twice" =>
        /\ hout2 = hout
        /\ ~StartsWith(hout, LABEL)
        /\ ~Contains(hout, <<NL>>)
        /\ ~Contains(hout, FENCE)
        /\ ~Contains(hout, SQLTAG)

\* C8: for a text "SQLQuery: " + s, clean_langchain_query returns what the
\* steps after the label step (newlines, fences, tag, trim) make of s, all of
\* s being kept.
C8_LabelKeepsContent ==
    (hpc \in {"once", "twice"} /\ StartsWith(hin, LABEL)) =>
        hout = CleanAfterLabel(DropFirst(hin, Len(LABEL)))

(***************************************************************************)
(* The request: what the claims speak of                                   *)
(***************************************************************************)

\* The request was made with a database connected.
Connected == startDb \notin {-1, None}

\* The request reached the guarded block (line 192) and has ended.
EndedInTry == pc = "done" /\ flagRead # "unread"

\* The statements the normalized query splits into.
QueryStatements == SplitStatements(query)

\* The db.run calls made, as <<statement, returned>>.
RunStmts(t) == [i \in 1..Len(RunCalls(t)) |-> <<RunCalls(t)[i].stmt, RunCalls(t)[i].ok>>]

\* The statements run, in order.
Executed == [i \in 1..Len(RunCalls(trace)) |-> RunCalls(trace)[i].stmt]

\* A call inside the guarded block raised.
RaisedInTry == \E i \in 1..Len(trace) : trace[i].op \in {"echo", "run"} /\ ~trace[i].ok

\* Sending the debug echo raised.
EchoRaised == \E i \in 1..Len(trace) : trace[i].op = "echo" /\ ~trace[i].ok

\* A db.run call raised.
RunRaised == \E i \in 1..Len(trace) : trace[i].op = "run" /\ ~trace[i].ok

\* The payload is a list whose entries are the rows of the statements sts, in order.
IsListOf(payload, sts) ==
    /\ payload.shape = "list"
    /\ Len(payload.items) = Len(sts)
    /\ \A i \in 1..Len(sts) : payload.items[i].result = Rows(sts[i])

(***************************************************************************)
(* C1                                                                      *)
(***************************************************************************)

\* C1: a request made with a database connected always hands a value back to
\* the host: whatever stage fails, no exception leaves query_database_data.
C1_AlwaysReturns ==
    (pc = "done" /\ Connected) => ret.kind \in {"json", "novalid"}

(***************************************************************************)
(* C2                                                                      *)
(***************************************************************************)

\* C2: when db is None at the start of the request, the request returns the
\* "not connected" advisory and nothing else happens: no call of a language
\* model, no call of the database, no debug echo.
C2_NotConnected ==
    startDb = None =>
        /\ pc = "done"
        /\ ret = Returned("advisory", NoResponse)
        /\ trace = <<>>
        /\ applied = <<>>
        /\ flagRead = "unread"

\* A request ended with the advisory after apply_settings failed to connect,
\* on a tool_input the chains would have answered with statements.
C2_Witness ==
    /\ startDb = None
    /\ nApply >= 1
    /\ asPc = "idle"
    /\ ret.kind = "advisory"
    /\ Len(SplitStatements(clean_langchain_query(raw))) >= 2

(***************************************************************************)
(* C3                                                                      *)
(***************************************************************************)

\* C3 as stated: a normalized query of exactly one statement yields a
\* single-object payload, one of two or more statements a list payload with
\* one entry per statement not skipped, in execution order. (Stated of the
\* requests whose debug echo did not raise: C9 is about those where it did.)
C3_ShapeByCount ==
    (EndedInTry /\ ~EchoRaised) =>
        /\ Len(QueryStatements) = 1 =>
              ret.kind = "json" /\ ret.value.shape \in {"object", "failure"}
        /\ Len(QueryStatements) >= 2 =>
              ret.kind = "json" /\ IsListOf(ret.value, SelectSeq(QueryStatements, IsExecuted))

\* C3 amended: a normalized query of exactly one statement yields a
\* single-object payload; one of two or more statements yields a list payload
\* with one entry per statement not skipped, in execution order, when no call
\* in the guarded block (the debug echo, a db.run) raises, and the single
\* failure object when one does.
C3_ShapeByCountUnlessRaised ==
    EndedInTry =>
        /\ Len(QueryStatements) = 1 =>
              ret.kind = "json" /\ ret.value.shape \in {"object", "failure"}
        /\ Len(QueryStatements) >= 2 =>
              /\ ret.kind = "json"
              /\ IF RaisedInTry
                 THEN ret.value.shape = "failure" /\ Len(ret.value.items) = 1
                 ELSE IsListOf(ret.value, SelectSeq(QueryStatements, IsExecuted))

\* A request of three statements ended with a list of three entries.
C3_Witness ==
    /\ EndedInTry
    /\ Len(QueryStatements) = 3
    /\ ~RaisedInTry
    /\ ret.kind = "json"
    /\ ret.value.shape = "list"
    /\ Len(ret.value.items) = 3

(***************************************************************************)
(* C4                                                                      *)
(***************************************************************************)

RECURSIVE DropSemicolons(_)
\* The statement without the semicolons and blanks that end it.
DropSemicolons(s) ==
    IF Len(s) > 0 /\ s[Len(s)] \in (Whitespace \cup {";"})
    THEN DropSemicolons(SubSeq(s, 1, Len(s) - 1)) ELSE s

\* The statement is the keyword BEGIN or the keyword COMMIT and nothing else
\* (SQL keywords in either case).
IsTransactionKeyword(s) ==
    Lower(DropSemicolons(s)) \in {Lower(T_BEGIN), Lower(T_COMMIT)}

IsNotTransactionKeyword(s) == ~IsTransactionKeyword(s)

\* C4: of two or more statements, those passed to db.run (each with an entry
\* in the output) are exactly those that are not the keyword BEGIN or COMMIT;
\* a lone statement is run as it is.
C4_OnlyWrappersSkipped ==
    (EndedInTry /\ ~RaisedInTry) =>
        /\ Len(QueryStatements) = 1 => Executed = QueryStatements
        /\ Len(QueryStatements) >= 2 =>
              /\ Executed = SelectSeq(QueryStatements, IsNotTransactionKeyword)
              /\ IsListOf(ret.value, SelectSeq(QueryStatements, IsNotTransactionKeyword))

(***************************************************************************)
(* C5                                                                      *)
(***************************************************************************)

\* C5: when db.run raises on a statement of a list of two or more, no later
\* statement is run, the payload is the one failure object {"result": error}
\* without a "columns" key and without the results of the statements before
\* it, and what those statements did stays applied to the database.
C5_MultiFailure ==
    (pc = "done" /\ Len(statements) >= 2 /\ RunRaised) =>
        LET runs == RunCalls(trace)
            last == runs[Len(runs)]
        IN /\ trace[Len(trace)] = last
           /\ ~last.ok
           /\ \A i \in 1..(Len(runs) - 1) : runs[i].ok
           /\ ret = Returned("json",
                  [shape |-> "failure", items |-> <<[result |-> Error("run", last.stmt)]>>])
           /\ applied = [i \in 1..(Len(runs) - 1) |-> [db |-> runs[i].db, stmt |-> runs[i].stmt]]

\* The second statement run of three raised: the first stays applied, the
\* third was never run.
C5_Witness ==
    /\ pc = "done"
    /\ Len(statements) = 3
    /\ RunRaised
    /\ Len(RunCalls(trace)) = 2
    /\ Len(applied) = 1
    /\ \A i \in 1..3 : IsExecuted(statements[i])
    /\ ret.kind = "json"

(***************************************************************************)
(* C9                                                                      *)
(***************************************************************************)

\* C9: the debug echo only observes. A request with the flag on runs the
\* statements, and returns the payload, of the same request with the flag
\* off (same normalized query, same database and model behaviour), whatever
\* sending the echo does; and with the flag on the echo comes before the
\* first db.run. (The two requests are compared on queries of at least one
\* statement.)
C9_EchoOnlyObserves ==
    /\ flagRead = "on" =>
          \A i \in 1..Len(trace) :
              trace[i].op = "run" => \E j \in 1..(i - 1) : trace[j].op = "echo"
    /\ ( /\ pc = "done"
         /\ reqNo >= 2
         /\ {prev.flag, flagRead} = {"on", "off"}
         /\ prev.startDb # None
         /\ startDb # None
         /\ QueryStatements # <<>> )
       => /\ RunStmts(trace) = RunStmts(prev.trace)
          /\ ret = prev.ret

(***************************************************************************)
(* C10                                                                     *)
(***************************************************************************)

\* C10: a request that has passed the "db is None" test uses one and the same
\* handle to build the chain, to read the dialect and to run every statement,
\* and never uses None, whatever apply_settings does meanwhile.
C10_OneHandle ==
    Connected =>
        \A i \in 1..Len(trace) :
            trace[i].op \in {"chain", "dialect", "run"} => trace[i].db = startDb

====
